---- MODULE Spec2Model ----
(***************************************************************************)
(* A model of the MCP server manager (src/mcp_server_manager.py) and of    *)
(* the streaming client (src/mcp_true_stream_client.py).                   *)
(*                                                                         *)
(* Spec        the server manager: registry, process handles, persisted    *)
(*             document, start / stop / stop all / reload, children that   *)
(*             exit                                                        *)
(* SpecScan    the server manager: discovery scan / add / reload           *)
(* SpecRT      save_config followed by load_config on arbitrary registries *)
(* SpecExtract _extract_tool_calls on rendered responses                   *)
(* SpecClient  the client: load_servers_from_config, call_tool and the     *)
(*             conversation turn, next to a manager that stops servers     *)
(* SpecClientLive  SpecClient with a turn whose steps are always taken     *)
(* SpecRefresh the client's loads alone, over every connection outcome     *)
(* SpecLoad    load_config on documents that are missing, damaged or saved *)
(* SpecStartAll start_all_servers among single starts, additions, reloads   *)
(* SpecSupervise one manager: start, stop, status, add and remove           *)
(* SpecAdmin   the server manager: start / status query / remove / reload   *)
(* SpecLayout  _extract_tool_calls on responses whose blocks hold several  *)
(*             invokes or are not closed                                   *)
(***************************************************************************)
EXTENDS Integers, Sequences, FiniteSets, TLC

VARIABLES
    servers,      \* MCPServerManager.servers   : ordered dict name -> MCPServerConfig
    processes,    \* MCPServerManager.processes : name -> pid of the tracked Popen
    doc,          \* the file mcp_servers.json
    alive,        \* pids of the OS processes that are running
    nextPid,      \* the pid the next Popen gets
    last,         \* what the last manager operation was given and returned
    all_tools,    \* MCPTrueStreamClient.all_tools : tool name -> MCPToolInfo
    connected,    \* MCPTrueStreamClient.servers   : name -> MCPServerInfo
    turn          \* the conversation turn in progress

supVars == <<servers, processes, doc, alive, nextPid, last>>
cliVars == <<all_tools, connected, turn>>
vars == <<servers, processes, doc, alive, nextPid, last, all_tools, connected, turn>>

-----------------------------------------------------------------------------
(* Bounds *)

MaxPid == 2          \* Popen is called at most this many times in a run
NumScanPorts == 2    \* ports the discovery scan sweeps, from ScanFirstPort up
MaxEntries == 2      \* entries of the registries that are saved and loaded
MaxBlocks == 2       \* directive blocks of a rendered response
MaxInvokes == 2      \* invoke markers inside one directive block

-----------------------------------------------------------------------------
(* Python values *)

None == "None"       \* None in an Optional[str] field
NoneInt == 0         \* None in an Optional[int] field (pid, port); falsy like 0

ScanFirstPort == 8000
ScanPorts == ScanFirstPort .. (ScanFirstPort + NumScanPorts - 1)

DiscoveredPrefix == "discovered_server_"
DiscName(port) == DiscoveredPrefix \o ToString(port)
SseUrl(port) == "http://127.0.0.1:" \o ToString(port) \o "/sse"

\* The names with the prefix: the ones discovery makes.
DiscoveredNames == {DiscName(p) : p \in ScanPorts}

\* name.startswith("discovered_server_")
StartsWithDiscovered(name) == name \in DiscoveredNames

-----------------------------------------------------------------------------
(* An ordered dict: Python's dict keeps insertion order; assigning to a key
   that is present keeps its place. *)

EmptyAt == [k \in {} |-> 0]
EmptyDict == [order |-> <<>>, at |-> EmptyAt]
Keys(d) == {d.order[i] : i \in DOMAIN d.order}
Put(d, k, v) ==
    IF k \in Keys(d)
    THEN [order |-> d.order, at |-> [x \in Keys(d) |-> IF x = k THEN v ELSE d.at[x]]]
    ELSE [order |-> Append(d.order, k),
          at |-> [x \in Keys(d) \cup {k} |-> IF x = k THEN v ELSE d.at[x]]]
Del(d, k) ==
    [order |-> SelectSeq(d.order, LAMBDA x : x # k),
     at |-> [x \in Keys(d) \ {k} |-> d.at[x]]]

-----------------------------------------------------------------------------
(* MCPServerConfig and its JSON record *)

MCPServerConfig(description, transport_type, command, url, port, working_directory, env_vars, auto_start, health_check_endpoint, pid, status) ==
    [description |-> description, transport_type |-> transport_type,
     command |-> command, url |-> url, port |-> port,
     working_directory |-> working_directory, env_vars |-> env_vars,
     auto_start |-> auto_start, health_check_endpoint |-> health_check_endpoint,
     pid |-> pid, status |-> status]

\* MCPTransportType.value and MCPTransportType(value)
TransportValue(t) == IF t = "SSE" THEN "sse" ELSE "stdio"
TransportValues == {"sse", "stdio"}
TransportOf(v) == IF v = "sse" THEN "SSE" ELSE "STDIO"

\* What save_config writes for one config.
ToJson(config) ==
    [description |-> config.description,
     transport_type |-> TransportValue(config.transport_type),
     command |-> config.command, url |-> config.url, port |-> config.port,
     working_directory |-> config.working_directory,
     env_vars |-> config.env_vars, auto_start |-> config.auto_start,
     health_check_endpoint |-> config.health_check_endpoint,
     pid |-> config.pid, status |-> config.status]

\* A load that takes the pid, like the status, as not stored.
FromJson_NoPid(data) ==
    MCPServerConfig(data.description, TransportOf(data.transport_type),
                    data.command, data.url, data.port, data.working_directory,
                    data.env_vars, data.auto_start, data.health_check_endpoint,
                    NoneInt, "unknown")

\* What load_config builds from one record of the document.
FromJson(data) ==
    MCPServerConfig(data.description, TransportOf(data.transport_type),
                    data.command, data.url, data.port, data.working_directory,
                    data.env_vars, data.auto_start, data.health_check_endpoint,
                    data.pid, "unknown")

\* The document: absent, unreadable as JSON, or a mapping name -> record.
MissingDoc == [exists |-> FALSE, parses |-> FALSE, data |-> EmptyDict]
CorruptDoc == [exists |-> TRUE, parses |-> FALSE, data |-> EmptyDict]
JsonDoc(d) == [exists |-> TRUE, parses |-> TRUE, data |-> d]

\* save_config: the whole registry, in its order.
SaveConfig(srv) ==
    JsonDoc([order |-> srv.order, at |-> [n \in Keys(srv) |-> ToJson(srv.at[n])]])

\* _find_server_by_port: the first entry with that port whose name does not
\* start with the prefix, or None.
FindFrom(srv, port, i) ==
    LET hits == {j \in i .. Len(srv.order) :
                   /\ srv.at[srv.order[j]].port = port
                   /\ ~StartsWithDiscovered(srv.order[j])}
    IN IF hits = {} THEN None
       ELSE srv.order[CHOOSE j \in hits : \A k \in hits : j <= k]
_find_server_by_port(srv, port) == FindFrom(srv, port, 1)

\* _create_default_config: add weather_server to what is loaded, and save.
DefaultName == "weather_server"
DefaultConfig ==
    MCPServerConfig("weather", "SSE", "python weather_server.py",
                    SseUrl(ScanFirstPort), ScanFirstPort, "cwd", {}, TRUE, "/sse",
                    NoneInt, "stopped")
_create_default_config(srv) == Put(srv, DefaultName, DefaultConfig)

\* A record load_config cannot build a config from (MCPTransportType raises).
ValidRecord(data) == data.transport_type \in TransportValues

\* The loop of load_config over the document's first n records; it stops at
\* the first invalid record, keeping what it has loaded.
RECURSIVE LoadLoop(_, _, _)
LoadLoop(d, srv, i) ==
    IF i > Len(d.order) THEN [srv |-> srv, raised |-> FALSE]
    ELSE LET name == d.order[i]
             data == d.at[name]
         IN IF /\ StartsWithDiscovered(name)
               /\ _find_server_by_port(srv, data.port) # None
            THEN LoadLoop(d, srv, i + 1)
            ELSE IF ~ValidRecord(data) THEN [srv |-> srv, raised |-> TRUE]
            ELSE LoadLoop(d, Put(srv, name, FromJson(data)), i + 1)

\* load_config without the else branch: a missing document leaves the
\* registry empty and nothing is written.
load_config_NoDefault(document) ==
    IF document.exists /\ document.parses
    THEN LET r == LoadLoop(document.data, EmptyDict, 1)
         IN IF r.raised
            THEN LET s == _create_default_config(r.srv)
                 IN [servers |-> s, doc |-> SaveConfig(s), raised |-> FALSE]
            ELSE [servers |-> r.srv, doc |-> document, raised |-> FALSE]
    ELSE IF document.exists
    THEN LET s == _create_default_config(EmptyDict)
         IN [servers |-> s, doc |-> SaveConfig(s), raised |-> FALSE]
    ELSE [servers |-> EmptyDict, doc |-> document, raised |-> FALSE]

\* load_config on a new manager: the registry and the document afterwards,
\* and whether an exception leaves the call. What json.load or the loop
\* raises is caught by the except branch, which makes the default config.
load_config(document) ==
    IF document.exists /\ document.parses
    THEN LET r == LoadLoop(document.data, EmptyDict, 1)
         IN IF r.raised
            THEN LET s == _create_default_config(r.srv)
                 IN [servers |-> s, doc |-> SaveConfig(s), raised |-> FALSE]
            ELSE [servers |-> r.srv, doc |-> document, raised |-> FALSE]
    ELSE LET s == _create_default_config(EmptyDict)
         IN [servers |-> s, doc |-> SaveConfig(s), raised |-> FALSE]

-----------------------------------------------------------------------------
(* The manager's operations, as functions of the manager's world
   w = [servers, processes, doc, alive, nextPid] and of what the environment
   answers. *)

\* _check_server_health: only an SSE server with a url is probed; answers is
\* whether the HEAD request returns 200.
_check_server_health(config, answers) ==
    /\ config.transport_type = "SSE"
    /\ config.url # None
    /\ answers

\* _is_process_running
_is_process_running(live, pid) == pid \in live

SetStatus(srv, name, status) ==
    [srv EXCEPT !.at[name] = [@ EXCEPT !.status = status]]

\* The status is set in memory and save_config is not called.
MarkAndSave_NoSave(w, name, status) ==
    [w EXCEPT !.servers = SetStatus(w.servers, name, status)]

\* config.status = status; self.save_config()
MarkAndSave(w, name, status) ==
    LET s == SetStatus(w.servers, name, status)
    IN [w EXCEPT !.servers = s, !.doc = SaveConfig(s)]

\* subprocess.Popen(config.command.split(), ...) raises when there is no
\* command to split or the program cannot be executed.
PopenRaises(config, launches) == config.command = None \/ ~launches

\* Popen succeeded: processes[name] = process; config.pid = process.pid;
\* config.status = "running"; save_config().
TrackSpawned(w, name) ==
    LET pid == w.nextPid
        s == [w.servers EXCEPT !.at[name] = [@ EXCEPT !.pid = pid, !.status = "running"]]
    IN [servers |-> s,
        processes |-> [n \in DOMAIN w.processes \cup {name} |->
                          IF n = name THEN pid ELSE w.processes[n]],
        doc |-> SaveConfig(s),
        alive |-> w.alive \cup {pid},
        nextPid |-> pid + 1]

\* The SSE branch of start_server once the first probe has failed.
StartSseSpawn(w, name, launches, h2) ==
    LET config == w.servers.at[name]
    IN IF PopenRaises(config, launches)
       THEN [w |-> MarkAndSave(w, name, "error"), ret |-> FALSE, spawned |-> 0, raised |-> TRUE]
       ELSE LET w2 == TrackSpawned(w, name)
            IN [w |-> w2,
                ret |-> _check_server_health(w2.servers.at[name], h2),
                spawned |-> 1, raised |-> FALSE]

\* start_server(name): h1 and h2 are the answers of the probe before and
\* after the spawn, launches whether Popen succeeds.
start_server(w, name, h1, launches, h2) ==
    IF name \notin Keys(w.servers)
    THEN [w |-> w, ret |-> FALSE, spawned |-> 0, raised |-> FALSE]
    ELSE LET config == w.servers.at[name]
         IN IF config.transport_type = "STDIO"
            THEN IF PopenRaises(config, launches)
                 THEN [w |-> MarkAndSave(w, name, "error"), ret |-> FALSE, spawned |-> 0, raised |-> TRUE]
                 ELSE [w |-> TrackSpawned(w, name), ret |-> TRUE, spawned |-> 1, raised |-> FALSE]
            ELSE IF _check_server_health(config, h1)
                 THEN [w |-> MarkAndSave(w, name, "running"), ret |-> TRUE, spawned |-> 0, raised |-> FALSE]
                 ELSE StartSseSpawn(w, name, launches, h2)

\* How process.terminate(); process.wait(timeout=5) on the tracked Popen ends.
PopenStopOutcomes == {"terminated", "killed", "error"}
\* How psutil.Process(pid).terminate(); wait(timeout=5) ends.
\* "gone" is NoSuchProcess or ZombieProcess, "denied" is AccessDenied: the
\* process goes on running and the call still counts as stopped.
PsutilStopOutcomes == {"terminated", "gone", "denied", "killed", "kill_failed", "error"}
PsutilEnds == {"terminated", "gone", "killed"}

\* Method 3 without the probe: every SSE server counts as stopped.
StopByProbe_NoProbe(config, h) == config.transport_type = "SSE"

\* Method 3 of stop_server: an SSE server nothing was stopped for counts as
\* stopped when the probe fails.
StopByProbe(config, h) ==
    /\ config.transport_type = "SSE"
    /\ ~_check_server_health(config, h)

\* stop_server(name): o1 and o2 are how the two terminations end, h the
\* answer of the probe.
stop_server(w, name, o1, o2, h) ==
    LET tracked == name \in DOMAIN w.processes
        stopped1 == tracked /\ o1 # "error"
        alive1 == IF stopped1 THEN w.alive \ {w.processes[name]} ELSE w.alive
        procs1 == [n \in DOMAIN w.processes \ {name} |-> w.processes[n]]
        known == name \in Keys(w.servers)
        config == w.servers.at[name]
        byPid == /\ known /\ ~stopped1
                 /\ config.pid # NoneInt
                 /\ _is_process_running(alive1, config.pid)
        ended2 == byPid /\ o2 \in PsutilEnds
        stopped2 == stopped1 \/ ended2 \/ (byPid /\ o2 = "denied")
        alive2 == IF ended2 THEN alive1 \ {config.pid} ELSE alive1
        stopped == stopped2 \/ (known /\ ~stopped2 /\ StopByProbe(config, h))
        s == IF ~known THEN w.servers
             ELSE IF stopped
             THEN [w.servers EXCEPT !.at[name] =
                      [@ EXCEPT !.status = "stopped", !.pid = NoneInt]]
             ELSE SetStatus(w.servers, name, "unknown")
    IN [w |-> [servers |-> s, processes |-> procs1,
               doc |-> IF known THEN SaveConfig(s) ELSE w.doc,
               alive |-> alive2, nextPid |-> w.nextPid],
        stopped |-> stopped]

\* The loop of stop_all_servers over the names in order; o1, o2 and h give
\* each server's outcomes.
RECURSIVE StopAllLoop(_, _, _, _, _, _)
StopAllLoop(w, order, i, o1, o2, h) ==
    IF i > Len(order) THEN w
    ELSE StopAllLoop(stop_server(w, order[i], o1[order[i]], o2[order[i]], h[order[i]]).w,
                     order, i + 1, o1, o2, h)

\* The loop over the servers with a tracked handle only.
stop_all_servers_TrackedOnly(w, o1, o2, h) ==
    StopAllLoop(w, SelectSeq(w.servers.order, LAMBDA n : n \in DOMAIN w.processes),
                1, o1, o2, h)

\* stop_all_servers: for name in self.servers.keys(): self.stop_server(name)
stop_all_servers(w, o1, o2, h) == StopAllLoop(w, w.servers.order, 1, o1, o2, h)

\* A loop that gives up at the first start_server that returns False.
RECURSIVE StartAllLoop_StopsAtFailure(_, _, _, _, _, _)
StartAllLoop_StopsAtFailure(w, order, i, h1, launches, h2) ==
    IF i > Len(order) THEN [w |-> w, attempted |-> <<>>]
    ELSE LET name == order[i]
         IN IF w.servers.at[name].auto_start
            THEN LET r == start_server(w, name, h1[name], launches[name], h2[name])
                     rest == IF r.ret
                             THEN StartAllLoop_StopsAtFailure(r.w, order, i + 1, h1, launches, h2)
                             ELSE [w |-> r.w, attempted |-> <<>>]
                 IN [w |-> rest.w, attempted |-> <<name>> \o rest.attempted]
            ELSE StartAllLoop_StopsAtFailure(w, order, i + 1, h1, launches, h2)

\* The loop of start_all_servers from place i on; h1, launches and h2 give
\* each server's answers. attempted are the names start_server was called
\* on, in the order of the calls.
RECURSIVE StartAllLoop(_, _, _, _, _, _)
StartAllLoop(w, order, i, h1, launches, h2) ==
    IF i > Len(order) THEN [w |-> w, attempted |-> <<>>]
    ELSE LET name == order[i]
         IN IF w.servers.at[name].auto_start
            THEN LET r == start_server(w, name, h1[name], launches[name], h2[name])
                     rest == StartAllLoop(r.w, order, i + 1, h1, launches, h2)
                 IN [w |-> rest.w, attempted |-> <<name>> \o rest.attempted]
            ELSE StartAllLoop(w, order, i + 1, h1, launches, h2)

\* start_all_servers: for name, config in self.servers.items():
\* if config.auto_start: self.start_server(name)
start_all_servers(w, h1, launches, h2) ==
    StartAllLoop(w, w.servers.order, 1, h1, launches, h2)

\* remove_server that deletes the entry without stopping the server first.
remove_server_NoStop(w, name, o1, o2, h) ==
    IF name \notin Keys(w.servers) THEN w
    ELSE LET s == Del(w.servers, name)
         IN [w EXCEPT !.servers = s, !.doc = SaveConfig(s)]

\* remove_server(name): stop_server(name); del self.servers[name];
\* save_config(). A name that is not registered only prints a warning.
remove_server(w, name, o1, o2, h) ==
    IF name \notin Keys(w.servers) THEN w
    ELSE LET w1 == stop_server(w, name, o1, o2, h).w
             s == Del(w1.servers, name)
         IN [w1 EXCEPT !.servers = s, !.doc = SaveConfig(s)]

\* A status query that trusts the probe alone for an SSE server.
get_server_status_ProbeOnly(w, name, h1, h2) ==
    IF name \notin Keys(w.servers)
    THEN [w |-> w, error |-> TRUE, status |-> None, health |-> None]
    ELSE LET config == w.servers.at[name]
             status == IF _check_server_health(config, h1) THEN "running" ELSE "stopped"
         IN [w |-> [w EXCEPT !.servers = SetStatus(w.servers, name, status)],
             error |-> FALSE, status |-> status,
             health |-> IF status # "running" THEN "unknown"
                        ELSE IF _check_server_health(config, h2) THEN "healthy"
                        ELSE "unhealthy"]

\* get_server_status(name): h1 is the answer of the probe that decides the
\* status, h2 of the one that fills the health field. The status (and for an
\* exited STDIO child the pid) is set in memory; save_config is not called.
get_server_status(w, name, h1, h2) ==
    IF name \notin Keys(w.servers)
    THEN [w |-> w, error |-> TRUE, status |-> None, health |-> None]
    ELSE LET config == w.servers.at[name]
             status ==
                 IF config.transport_type = "SSE"
                 THEN IF _check_server_health(config, h1) THEN "running"
                      ELSE IF config.pid # NoneInt /\ _is_process_running(w.alive, config.pid)
                      THEN "running" ELSE "stopped"
                 ELSE IF name \in DOMAIN w.processes
                      THEN IF w.processes[name] \in w.alive THEN "running" ELSE "stopped"
                      ELSE "stopped"
             exited == /\ config.transport_type = "STDIO"
                       /\ name \in DOMAIN w.processes
                       /\ w.processes[name] \notin w.alive
             s == [w.servers EXCEPT !.at[name] =
                      [@ EXCEPT !.status = status,
                                !.pid = IF exited THEN NoneInt ELSE @]]
         IN [w |-> [w EXCEPT !.servers = s],
             error |-> FALSE, status |-> status,
             health |-> IF status # "running" THEN "unknown"
                        ELSE IF _check_server_health(config, h2) THEN "healthy"
                        ELSE "unhealthy"]

\* add_server(config): self.servers[config.name] = config; save_config().
add_server(srv, name, config) == Put(srv, name, config)

\* The config discover_running_servers makes for a port that answers.
DiscoveredConfig(port) ==
    MCPServerConfig("discovered", "SSE", None, SseUrl(port), port, None, {},
                    FALSE, None, NoneInt, "running")

\* A scan that registers every responder, never looking for its owner.
ScanHit_NoDedup(srv, port) == add_server(srv, DiscName(port), DiscoveredConfig(port))

\* One port of the scan that answered 200.
ScanHit(srv, port) ==
    LET existing_server == _find_server_by_port(srv, port)
    IN IF existing_server # None
       THEN SetStatus(srv, existing_server, "running")
       ELSE add_server(srv, DiscName(port), DiscoveredConfig(port))

\* The loop of discover_running_servers from port on; responders are the
\* ports whose HEAD request returns 200 (any other answer or error: continue).
RECURSIVE ScanLoop(_, _, _)
ScanLoop(srv, port, responders) ==
    IF port \notin ScanPorts THEN srv
    ELSE IF port \in responders
         THEN ScanLoop(ScanHit(srv, port), port + 1, responders)
         ELSE ScanLoop(srv, port + 1, responders)

\* A scan that registers what it finds in memory only.
discover_running_servers_NoSave(w, responders) ==
    [w EXCEPT !.servers = ScanLoop(w.servers, ScanFirstPort, responders)]

discover_running_servers(w, responders) ==
    LET s == ScanLoop(w.servers, ScanFirstPort, responders)
    IN [w EXCEPT !.servers = s,
                 !.doc = IF responders = {} THEN w.doc ELSE SaveConfig(s)]

-----------------------------------------------------------------------------
(* Text with directive markers.  A text is a sequence of tokens: the four
   markers of the system prompt and runs of other characters.  A run holds
   no '<', is not empty, and two runs are never adjacent. *)

Tok(t, v) == [t |-> t, v |-> v]
FcOpen == Tok("<function_calls>", "")
FcClose == Tok("</function_calls>", "")
Invoke(name) == Tok("<invoke name=>", name)
InvokeEnd == Tok("</invoke>", "")
Param(name) == Tok("<parameter name=>", name)
ParamEnd == Tok("</parameter>", "")
Chars(text) == Tok("chars", text)
Newline == Chars("\n")

IsInvoke(tok) == tok.t = "<invoke name=>" /\ tok.v # ""
IsParam(tok) == tok.t = "<parameter name=>" /\ tok.v # ""
IsChars(tok) == tok.t = "chars"

\* The least element of a non-empty set of numbers.
Least(S) == CHOOSE i \in S : \A j \in S : i <= j

\* re.findall(r'<function_calls>(.*?)</function_calls>', content, re.DOTALL)
\* from place i on: each match starts at the next opening marker and ends at
\* the first closing marker after it.
RECURSIVE FindBlocks(_, _)
FindBlocks(content, i) ==
    LET opens == {a \in i .. Len(content) : content[a] = FcOpen}
    IN IF opens = {} THEN <<>>
       ELSE LET a == Least(opens)
                closes == {b \in (a + 1) .. Len(content) : content[b] = FcClose}
            IN IF closes = {} THEN <<>>
               ELSE LET b == Least(closes)
                    IN <<SubSeq(content, a + 1, b - 1)>> \o FindBlocks(content, b + 1)

\* What ([^<]+)</parameter> matches after the parameter marker at place j:
\* one run of characters followed by the end marker; <<>> when that is not
\* what follows.
ParamValue(block, j) ==
    IF j + 2 <= Len(block) /\ IsChars(block[j + 1]) /\ block[j + 2] = ParamEnd
    THEN <<block[j + 1].v>>
    ELSE <<>>

\* re.findall(r'<parameter name="([^"]+)">([^<]+)</parameter>', call_block)
\* from place j on, as pairs <<name, value>>.
RECURSIVE FindParams(_, _)
FindParams(block, j) ==
    IF j > Len(block) THEN <<>>
    ELSE IF IsParam(block[j]) /\ ParamValue(block, j) # <<>>
         THEN <<<<block[j].v, ParamValue(block, j)[1]>>>> \o FindParams(block, j + 3)
         ELSE FindParams(block, j + 1)

\* arguments[param_name] = param_value for each match in turn: the last
\* match of a name stays.
ArgsOf(matches) ==
    [p \in {matches[k][1] : k \in DOMAIN matches} |->
        matches[CHOOSE k \in DOMAIN matches :
                    /\ matches[k][1] = p
                    /\ \A l \in DOMAIN matches : matches[l][1] = p => l <= k][2]]

\* The body of the loop of _extract_tool_calls for one block: no call when
\* re.search finds no invoke marker, else the name of the first one with
\* every parameter match of the block.
BlockCalls(block) ==
    LET invokes == {j \in DOMAIN block : IsInvoke(block[j])}
    IN IF invokes = {} THEN <<>>
       ELSE <<[name |-> block[Least(invokes)].v,
               arguments |-> ArgsOf(FindParams(block, 1))]>>

RECURSIVE CallsOf(_, _)
CallsOf(blocks, k) ==
    IF k > Len(blocks) THEN <<>>
    ELSE BlockCalls(blocks[k]) \o CallsOf(blocks, k + 1)

_extract_tool_calls(response_content) == CallsOf(FindBlocks(response_content, 1), 1)

\* The turn before any query.  tool_results holds, beside the three keys of
\* the code, what the remote side did for the call (remote), the server the
\* session was opened to (server) and whether the result is a str (is_str);
\* system_message holds the tool lines of the system prompt while the first
\* call, the only reader of messages, is ahead or running;
\* llm_calls counts the calls of llm.astream, failed is the one that raised
\* (0: none), summary is tool_results_text as the second call is given it,
\* log_raised whether writing the results to the log raised, and aborted
\* whether an exception of call_tool ended the turn.
IdleTurn ==
    [pc |-> "idle", full_response |-> <<>>, tool_calls |-> <<>>,
     tool_results |-> <<>>, llm_calls |-> 0, failed |-> 0, summary |-> <<>>,
     answer |-> <<>>, log_raised |-> FALSE, aborted |-> FALSE,
     system_message |-> {}]

-----------------------------------------------------------------------------
(* Responses that follow the format of the system prompt *)

\* <parameter name="p">v</parameter> and a line break; an empty value has no
\* characters between the markers.
RenderParam(pv) ==
    <<Param(pv[1])>> \o (IF pv[2] = "" THEN <<>> ELSE <<Chars(pv[2])>>)
        \o <<ParamEnd, Newline>>

RECURSIVE RenderParams(_, _)
RenderParams(params, k) ==
    IF k > Len(params) THEN <<>>
    ELSE RenderParam(params[k]) \o RenderParams(params, k + 1)

\* One directive block, as the system prompt lays it out.
RenderBlock(d) ==
    <<FcOpen, Newline, Invoke(d.name), Newline>> \o RenderParams(d.params, 1)
        \o <<InvokeEnd, Newline, FcClose>>

\* Some words, then each block followed by a line break.
RECURSIVE RenderBlocks(_, _)
RenderBlocks(ds, k) ==
    IF k > Len(ds) THEN <<>>
    ELSE RenderBlock(ds[k]) \o <<Newline>> \o RenderBlocks(ds, k + 1)
Render(ds) == <<Chars("Let me look that up. ")>> \o RenderBlocks(ds, 1)

\* The well-formed directives: a procedure and zero, one or two parameters
\* with distinct names, each value any string of ParamValues.
ProcNames == {"get_weather", "query_employee"}
ParamValues == {"", "D0001"}
ParamLists ==
    {<<>>}
    \cup {<<<<"employee_id", v>>>> : v \in ParamValues}
    \cup {<<<<"employee_id", v>>, <<"city", u>>>> : v \in ParamValues, u \in ParamValues}
Directives == [name : ProcNames, params : ParamLists]
DirectiveLists == UNION {[1 .. n -> Directives] : n \in 0 .. MaxBlocks}

\* The arguments a directive declares.
Declared(d) ==
    [p \in {d.params[k][1] : k \in DOMAIN d.params} |->
        d.params[CHOOSE k \in DOMAIN d.params : d.params[k][1] = p][2]]


-----------------------------------------------------------------------------
(* The manager's state machine *)

World == [servers |-> servers, processes |-> processes, doc |-> doc,
          alive |-> alive, nextPid |-> nextPid]

SetWorld(w) ==
    /\ servers' = w.servers
    /\ processes' = w.processes
    /\ doc' = w.doc
    /\ alive' = w.alive
    /\ nextPid' = w.nextPid

NoLast == [op |-> "init", name |-> None, ret |-> FALSE, spawned |-> 0,
           raised |-> FALSE, h1 |-> FALSE, responders |-> {}, tracked |-> FALSE, pid |-> NoneInt,
           by_pid |-> {}, ended |-> {}, had_doc |-> FALSE,
           error |-> FALSE, status |-> None, was |-> None, given |-> <<>>,
           attempted |-> <<>>]

\* The servers of the shipped configuration and the ones an operator adds.
WeatherRunning == [DefaultConfig EXCEPT !.status = "running"]
EmployeeConfig ==
    MCPServerConfig("employee", "SSE", "python employee_server.py",
                    SseUrl(ScanFirstPort + 1), ScanFirstPort + 1, None, {}, TRUE,
                    "/sse", NoneInt, "stopped")
LocalConfig ==
    MCPServerConfig("local", "STDIO", "python local_tool.py", None, NoneInt,
                    "cwd", {<<"MODE", "stdio">>}, FALSE, None, NoneInt, "stopped")

AddPool == {<<"employee_server", EmployeeConfig>>}

\* The documents a run may find: none, an unreadable one, and one a previous
\* run left.
PreviousRunDoc ==
    SaveConfig(Put(Put(EmptyDict, DefaultName, WeatherRunning),
                   "local_tool", LocalConfig))
InitDocs == {MissingDoc, CorruptDoc, PreviousRunDoc}

ClientIdle ==
    /\ all_tools = EmptyAt
    /\ connected = EmptyAt
    /\ turn = IdleTurn

\* MCPServerManager(): __init__ runs load_config.
Init ==
    /\ \E d \in InitDocs :
          LET r == load_config(d)
          IN /\ servers = r.servers
             /\ doc = r.doc
    /\ processes = EmptyAt
    /\ alive = {}
    /\ nextPid = 1
    /\ last = NoLast
    /\ ClientIdle

StartServer(name) ==
    /\ nextPid <= MaxPid
    /\ \E h1 \in BOOLEAN, launches \in BOOLEAN, h2 \in BOOLEAN :
          LET r == start_server(World, name, h1, launches, h2)
          IN /\ SetWorld(r.w)
             /\ last' = [NoLast EXCEPT !.op = "start", !.name = name,
                            !.ret = r.ret, !.spawned = r.spawned,
                            !.raised = r.raised,
                            !.h1 = h1,
                            !.tracked = name \in DOMAIN processes]
    /\ UNCHANGED cliVars

StopServer(name) ==
    /\ \E o1 \in PopenStopOutcomes, o2 \in PsutilStopOutcomes, h \in BOOLEAN :
          LET r == stop_server(World, name, o1, o2, h)
          IN /\ SetWorld(r.w)
             /\ last' = [NoLast EXCEPT !.op = "stop", !.name = name,
                            !.ret = r.stopped, !.h1 = h,
                            !.tracked = name \in DOMAIN processes,
                            !.pid = IF name \in Keys(servers)
                                    THEN servers.at[name].pid ELSE NoneInt]
    /\ UNCHANGED cliVars

\* The servers known only by a recorded pid whose process is alive, with
\* that pid.
OnlyByPid ==
    {<<n, servers.at[n].pid>> : n \in {m \in Keys(servers) :
        /\ m \notin DOMAIN processes
        /\ servers.at[m].pid # NoneInt
        /\ _is_process_running(alive, servers.at[m].pid)}}

\* One outcome of each kind stop_server tells apart: a kill after the timeout
\* leaves what a termination in time leaves, and a failed kill what any other
\* exception leaves.
StopAllPopen == {"terminated", "error"}
StopAllPsutil == {"terminated", "denied", "error"}

StopAll ==
    /\ \E o1 \in [Keys(servers) -> StopAllPopen],
          o2 \in [Keys(servers) -> StopAllPsutil],
          h \in [Keys(servers) -> BOOLEAN] :
          /\ SetWorld(stop_all_servers(World, o1, o2, h))
          /\ last' = [NoLast EXCEPT !.op = "stop_all",
                         !.by_pid = OnlyByPid,
                         !.ended = {n \in Keys(servers) : o2[n] \in PsutilEnds}]
    /\ UNCHANGED cliVars

Discover ==
    /\ \E responders \in SUBSET ScanPorts :
          /\ SetWorld(discover_running_servers(World, responders))
          /\ last' = [NoLast EXCEPT !.op = "scan", !.responders = responders]
    /\ UNCHANGED cliVars

AddServer ==
    /\ \E a \in AddPool :
          LET s == add_server(servers, a[1], a[2])
          IN /\ servers' = s
             /\ doc' = SaveConfig(s)
             /\ last' = [NoLast EXCEPT !.op = "add", !.name = a[1]]
    /\ UNCHANGED <<processes, alive, nextPid>>
    /\ UNCHANGED cliVars

\* The manager's process ends and a new MCPServerManager() is made: the
\* handles are gone, the children go on running.
NewManager ==
    /\ LET r == load_config(doc)
       IN /\ servers' = r.servers
          /\ doc' = r.doc
          /\ last' = [NoLast EXCEPT !.op = "load", !.raised = r.raised,
                         !.had_doc = doc.exists]
    /\ processes' = EmptyAt
    /\ UNCHANGED <<alive, nextPid>>
    /\ UNCHANGED cliVars

\* A server process ends by itself.
ProcessExits ==
    /\ \E pid \in alive : alive' = alive \ {pid}
    /\ UNCHANGED <<servers, processes, doc, nextPid, last>>
    /\ UNCHANGED cliVars

\* The life cycle of the configured servers.
Next ==
    \/ \E name \in Keys(servers) : StartServer(name)
    \/ \E name \in Keys(servers) : StopServer(name)
    \/ StopAll
    \/ NewManager
    \/ ProcessExits

Spec == Init /\ [][Next]_vars

\* Registration and discovery.
NextScan ==
    \/ Discover
    \/ AddServer
    \/ NewManager

SpecScan == Init /\ [][NextScan]_vars

\* The servers start_all_servers starts.
AutoStarted(srv) == SelectSeq(srv.order, LAMBDA n : srv.at[n].auto_start)

StartAll ==
    /\ nextPid + Len(AutoStarted(servers)) - 1 <= MaxPid
    /\ \E h1 \in [Keys(servers) -> BOOLEAN],
          launches \in [Keys(servers) -> BOOLEAN],
          h2 \in [Keys(servers) -> BOOLEAN] :
          LET r == start_all_servers(World, h1, launches, h2)
          IN /\ SetWorld(r.w)
             /\ last' = [NoLast EXCEPT !.op = "start_all",
                            !.attempted = r.attempted]
    /\ UNCHANGED cliVars

\* Menu 2 (start all) among single starts, additions, new managers and
\* processes that end.
NextStartAll ==
    \/ StartAll
    \/ \E name \in Keys(servers) : StartServer(name)
    \/ AddServer
    \/ NewManager
    \/ ProcessExits

SpecStartAll == Init /\ [][NextStartAll]_vars

-----------------------------------------------------------------------------
(* The extractor on the rendered responses *)

InitExtract ==
    /\ servers = EmptyDict
    /\ doc = MissingDoc
    /\ processes = EmptyAt
    /\ alive = {}
    /\ nextPid = 1
    /\ last = NoLast
    /\ all_tools = EmptyAt
    /\ connected = EmptyAt
    /\ \E ds \in DirectiveLists :
          turn = [IdleTurn EXCEPT !.pc = "STREAMING_RESPONSE", !.llm_calls = 1,
                                  !.full_response = Render(ds)]

\* tool_calls = self._extract_tool_calls(full_response)
Extract ==
    /\ turn.pc = "STREAMING_RESPONSE"
    /\ turn' = [turn EXCEPT !.pc = "extracted",
                            !.tool_calls = _extract_tool_calls(turn.full_response)]
    /\ UNCHANGED <<servers, processes, doc, alive, nextPid, last, all_tools, connected>>

NextExtract == Extract

SpecExtract == InitExtract /\ [][NextExtract]_vars

\* Responses whose blocks hold one or more invoke markers and may lack the
\* closing marker: a layout is a sequence of groups, a group the directives
\* of one block and whether the block is closed.
LayoutDirectives ==
    {[name |-> "get_weather", params |-> <<<<"city", "D0001">>>>],
     [name |-> "query_employee", params |-> <<<<"employee_id", "D0001">>>>]}
Groups ==
    [invokes : UNION {[1 .. n -> LayoutDirectives] : n \in 1 .. MaxInvokes},
     closed : BOOLEAN]
Layouts == UNION {[1 .. n -> Groups] : n \in 0 .. MaxBlocks}

RenderInvoke(d) ==
    <<Invoke(d.name), Newline>> \o RenderParams(d.params, 1) \o <<InvokeEnd, Newline>>

RECURSIVE RenderInvokes(_, _)
RenderInvokes(ds, k) ==
    IF k > Len(ds) THEN <<>>
    ELSE RenderInvoke(ds[k]) \o RenderInvokes(ds, k + 1)

\* A block of several invokes; one that is not closed ends after the line
\* break of its last invoke.
RenderGroup(g) ==
    <<FcOpen, Newline>> \o RenderInvokes(g.invokes, 1)
        \o (IF g.closed THEN <<FcClose, Newline>> ELSE <<>>)

RECURSIVE RenderGroups(_, _)
RenderGroups(gs, k) ==
    IF k > Len(gs) THEN <<>>
    ELSE RenderGroup(gs[k]) \o RenderGroups(gs, k + 1)
RenderLayout(gs) == <<Chars("Let me look that up. ")>> \o RenderGroups(gs, 1)

InitLayout ==
    /\ servers = EmptyDict
    /\ doc = MissingDoc
    /\ processes = EmptyAt
    /\ alive = {}
    /\ nextPid = 1
    /\ all_tools = EmptyAt
    /\ connected = EmptyAt
    /\ \E gs \in Layouts :
          /\ last = [NoLast EXCEPT !.op = "response", !.given = gs]
          /\ turn = [IdleTurn EXCEPT !.pc = "STREAMING_RESPONSE", !.llm_calls = 1,
                                     !.full_response = RenderLayout(gs)]

NextLayout == Extract

SpecLayout == InitLayout /\ [][NextLayout]_vars

-----------------------------------------------------------------------------
(* The client: load_servers_from_config, call_tool and the turn *)

\* What session.list_tools() returns for a server.
Catalog(server_name) ==
    IF server_name = DefaultName THEN {"get_weather"}
    ELSE IF server_name = "employee_server" THEN {"query_employee"}
    ELSE IF server_name = "local_tool" THEN {"get_weather"}
    ELSE {}

\* tool.inputSchema of a tool of the catalogs: the names of its properties.
InputSchema(name) == IF name = "get_weather" THEN {"city"} ELSE {"employee_id"}

MCPToolInfo(name, server_name) ==
    [name |-> name, description |-> "No description",
     parameters |-> InputSchema(name), server_name |-> server_name]

\* One line of tools_list: f"- {tool.name}: {tool.description} (来自
\* {tool.server_name})", as the values it is formatted from.
PromptLine(tool) ==
    [name |-> tool.name, description |-> tool.description,
     server_name |-> tool.server_name]

\* The tool lines of system_message, one for each value of all_tools.
SystemMessage(tools) == {PromptLine(tools[t]) : t \in DOMAIN tools}

MCPServerInfo(name, data) ==
    [name |-> name, transport_type |-> TransportOf(data.transport_type),
     url_or_command |-> IF data.url # None THEN data.url ELSE data.command]

\* How _connect_and_load_tools ends for one server: the session delivers the
\* catalog and closes; it fails before the catalog; it fails while closing,
\* after the loop over the catalog.
ConnectOutcomes == {"ok", "fails", "fails_after_catalog"}

\* _connect_sse / _connect_stdio: every tool of the catalog is put into
\* all_tools inside the session.
WithCatalog(tools, server_name) ==
    [t \in DOMAIN tools \cup Catalog(server_name) |->
        IF t \in Catalog(server_name) THEN MCPToolInfo(t, server_name) ELSE tools[t]]

\* A loop that gives up at the first server whose connection fails.
RECURSIVE RefreshLoop_StopsAtFailure(_, _, _, _)
RefreshLoop_StopsAtFailure(d, i, cl, outcome) ==
    IF i > Len(d.order) THEN cl
    ELSE LET name == d.order[i]
             data == d.at[name]
         IN IF data.status # "running"
            THEN RefreshLoop_StopsAtFailure(d, i + 1, cl, outcome)
            ELSE IF ~ValidRecord(data) \/ outcome[name] = "fails" THEN cl
            ELSE LET tools == WithCatalog(cl.all_tools, name)
                     srvs == IF outcome[name] # "ok" THEN cl.servers
                             ELSE [n \in DOMAIN cl.servers \cup {name} |->
                                      IF n = name THEN MCPServerInfo(name, data)
                                      ELSE cl.servers[n]]
                 IN RefreshLoop_StopsAtFailure(
                        d, i + 1, [all_tools |-> tools, servers |-> srvs], outcome)

\* The loop of load_servers_from_config from record i on; cl is
\* [all_tools, servers], outcome[name] how the connection to name ends.
RECURSIVE RefreshLoop(_, _, _, _)
RefreshLoop(d, i, cl, outcome) ==
    IF i > Len(d.order) THEN cl
    ELSE LET name == d.order[i]
             data == d.at[name]
         IN IF data.status # "running" THEN RefreshLoop(d, i + 1, cl, outcome)
            ELSE IF ~ValidRecord(data) THEN cl
            ELSE LET tools == IF outcome[name] = "fails" THEN cl.all_tools
                              ELSE WithCatalog(cl.all_tools, name)
                     srvs == IF outcome[name] # "ok" THEN cl.servers
                             ELSE [n \in DOMAIN cl.servers \cup {name} |->
                                      IF n = name THEN MCPServerInfo(name, data)
                                      ELSE cl.servers[n]]
                 IN RefreshLoop(d, i + 1, [all_tools |-> tools, servers |-> srvs], outcome)

load_servers_from_config(document, cl, outcome) ==
    IF document.exists /\ document.parses
    THEN RefreshLoop(document.data, 1, cl, outcome)
    ELSE cl

\* The texts call_tool returns.
UnknownText(tool_name) == "error: tool " \o tool_name \o " does not exist"
NotConnectedText(server_name) == "error: server " \o server_name \o " is not connected"
CallFailedText(e) == "tool call failed: " \o e
ToolOutput(tool_name) == "output of " \o tool_name

\* What the remote side does once call_tool goes to it: the session opens
\* and the call returns text, or one of the two raises.
RemoteOutcomes == {"returns", "open_raises", "call_raises"}
RemoteError(remote) ==
    IF remote = "open_raises" THEN "connection refused" ELSE "remote error"

\* The result of a call that went to the remote side: _call_tool_sse returns
\* the text of the first content item, _call_tool_stdio result.content, the
\* list of content items itself.
Returned(info, tool_name) ==
    [result |-> ToolOutput(tool_name), remote |-> "returns", server |-> info.name,
     is_str |-> info.transport_type = "SSE", raised |-> FALSE]

\* What call_tool returns without going to the remote side.
Refused(text) ==
    [result |-> text, remote |-> "none", server |-> None, is_str |-> TRUE,
     raised |-> FALSE]

\* call_tool without the try around the remote call.
call_tool_NoTry(tools, srvs, tool_name, remote) ==
    IF tool_name \notin DOMAIN tools
    THEN Refused(UnknownText(tool_name))
    ELSE IF tools[tool_name].server_name \notin DOMAIN srvs
    THEN Refused(NotConnectedText(tools[tool_name].server_name))
    ELSE IF remote = "returns"
    THEN Returned(srvs[tools[tool_name].server_name], tool_name)
    ELSE [result |-> RemoteError(remote), remote |-> remote,
          server |-> tools[tool_name].server_name, is_str |-> TRUE, raised |-> TRUE]

\* call_tool(tool_name, arguments): what is returned, what the remote side
\* did (none: it was not contacted), and whether an exception leaves call_tool.
call_tool(tools, srvs, tool_name, remote) ==
    IF tool_name \notin DOMAIN tools
    THEN Refused(UnknownText(tool_name))
    ELSE IF tools[tool_name].server_name \notin DOMAIN srvs
    THEN Refused(NotConnectedText(tools[tool_name].server_name))
    ELSE IF remote = "returns"
    THEN Returned(srvs[tools[tool_name].server_name], tool_name)
    ELSE [result |-> CallFailedText(RemoteError(remote)), remote |-> remote,
          server |-> tools[tool_name].server_name, is_str |-> TRUE, raised |-> FALSE]

\* "<function_calls>" in full_response and "</function_calls>" in full_response
HasMarkers(text) ==
    /\ \E i \in DOMAIN text : text[i] = FcOpen
    /\ \E i \in DOMAIN text : text[i] = FcClose

\* A turn that goes on to dispatch whatever the extractor returns.
HasCalls_Always(tool_calls) == TRUE

\* if tool_calls:
HasCalls(tool_calls) == tool_calls # <<>>

\* The texts of the except branches of the turn.
LlmFailedText == <<Chars("LLM failed: engine error")>>
ResultsFailedText == <<Chars("processing the tool results failed: engine error")>>
LogFailedText == <<Chars("LLM failed: Object of type TextContent is not JSON serializable")>>

\* An engine call whose exception nothing catches: it leaves the turn.
OnEngineError_Propagates(t, call) ==
    [t EXCEPT !.pc = "RAISED", !.failed = call]

\* The except branches around the two calls of llm.astream: the turn
\* returns the error text.
OnEngineError(t, call) ==
    [t EXCEPT !.pc = "DONE", !.failed = call,
              !.answer = IF call = 1 THEN LlmFailedText ELSE ResultsFailedText]

\* json.dumps of the results in _log_context raises when a result is not a
\* str (nor another JSON value).
LogRaises(tool_results) ==
    \E k \in DOMAIN tool_results : ~tool_results[k].is_str

\* f"{result}": a str as it is, a list of content items as its repr.
Formatted(r) ==
    IF r.is_str THEN r.result ELSE "[TextContent(text='" \o r.result \o "')]"

\* tool_results_text: one line per result, in the order of tool_results.
SummaryOf(tool_results) ==
    [k \in DOMAIN tool_results |->
        <<tool_results[k].tool_name, Formatted(tool_results[k])>>]

\* for tool_call in tool_calls: the call the loop is at.
NextCall(t) == t.tool_calls[Len(t.tool_results) + 1]

\* What the completion engine streams first: plain text, nothing, one or
\* two directives for known tools, a directive for a tool no server has,
\* markers around no invoke marker, and the two markers in the wrong order.
WeatherCall == [name |-> "get_weather", params |-> <<<<"city", "Beijing">>>>]
EmployeeCall == [name |-> "query_employee", params |-> <<<<"employee_id", "D0001">>>>]
StockCall == [name |-> "get_stock", params |-> <<<<"symbol", "ACME">>>>]
FirstResponses ==
    {<<Chars("Hello.")>>, <<>>,
     Render(<<WeatherCall>>), Render(<<StockCall>>),
     Render(<<EmployeeCall, WeatherCall>>), Render(<<StockCall, WeatherCall>>),
     <<FcOpen, Chars("nothing to call"), FcClose>>,
     <<FcClose, Chars(" and "), FcOpen>>}
\* What it streams when called with the results.
FinalResponses == {<<Chars("Here is what I found.")>>, <<>>}

\* The servers the client finds in the document: the two SSE servers were
\* found reachable by start_server, which marked them running, as it did
\* the STDIO server it spawned.
ClientRegistry ==
    Put(Put(Put(EmptyDict, DefaultName, WeatherRunning),
            "employee_server", [EmployeeConfig EXCEPT !.status = "running"]),
        "local_tool", [LocalConfig EXCEPT !.status = "running"])

InitClient ==
    /\ servers = ClientRegistry
    /\ doc = SaveConfig(ClientRegistry)
    /\ processes = EmptyAt
    /\ alive = {}
    /\ nextPid = 1
    /\ last = NoLast
    /\ ClientIdle

Resting == turn.pc \in {"idle", "DONE"}

\* await client.load_servers_from_config()
Refresh ==
    /\ Resting
    /\ \E outcome \in [Keys(doc.data) -> ConnectOutcomes] :
          LET cl == load_servers_from_config(
                        doc, [all_tools |-> all_tools, servers |-> connected], outcome)
          IN /\ all_tools' = cl.all_tools
             /\ connected' = cl.servers
    /\ UNCHANGED <<turn, servers, processes, doc, alive, nextPid, last>>

\* process_query_true_stream is called: the system prompt is built.
BeginTurn ==
    /\ Resting
    /\ turn' = [IdleTurn EXCEPT !.pc = "PROMPTING",
                                !.system_message = SystemMessage(all_tools)]
    /\ UNCHANGED <<all_tools, connected, servers, processes, doc, alive, nextPid, last>>

\* async for chunk in self.llm.astream(messages): the first call.
CallEngine ==
    /\ turn.pc = "PROMPTING"
    /\ turn' = [turn EXCEPT !.pc = "STREAMING_RESPONSE", !.llm_calls = 1]
    /\ UNCHANGED <<all_tools, connected, servers, processes, doc, alive, nextPid, last>>

\* The first stream ends: the markers are looked for and the calls extracted.
FirstStreamEnds ==
    /\ turn.pc = "STREAMING_RESPONSE"
    /\ \E text \in FirstResponses :
          LET tool_calls == IF HasMarkers(text) THEN _extract_tool_calls(text) ELSE <<>>
          IN turn' = IF HasMarkers(text) /\ HasCalls(tool_calls)
                     THEN [turn EXCEPT !.pc = "DIRECTIVES_FOUND",
                                       !.full_response = text,
                                       !.tool_calls = tool_calls,
                                       !.system_message = {}]
                     ELSE [turn EXCEPT !.pc = "DONE", !.full_response = text,
                                       !.answer = text, !.system_message = {}]
    /\ UNCHANGED <<all_tools, connected, servers, processes, doc, alive, nextPid, last>>

\* The first stream raises: except Exception of process_query_true_stream.
FirstStreamRaises ==
    /\ turn.pc = "STREAMING_RESPONSE"
    /\ turn' = [OnEngineError(turn, 1) EXCEPT !.system_message = {}]
    /\ UNCHANGED <<all_tools, connected, servers, processes, doc, alive, nextPid, last>>

\* The calls are announced; tool_results = [].
BeginDispatch ==
    /\ turn.pc = "DIRECTIVES_FOUND"
    /\ turn' = [turn EXCEPT !.pc = "DISPATCHING", !.tool_results = <<>>]
    /\ UNCHANGED <<all_tools, connected, servers, processes, doc, alive, nextPid, last>>

\* One pass of the loop: tool_result = await self.call_tool(...); append.
\* An exception leaving call_tool ends the turn in the except branch.
Dispatch ==
    /\ turn.pc = "DISPATCHING"
    /\ Len(turn.tool_results) < Len(turn.tool_calls)
    /\ \E remote \in RemoteOutcomes :
          LET tool_call == NextCall(turn)
              r == call_tool(all_tools, connected, tool_call.name, remote)
          IN turn' = IF r.raised
                     THEN [turn EXCEPT !.pc = "DONE", !.aborted = TRUE,
                                       !.answer = LlmFailedText]
                     ELSE [turn EXCEPT !.tool_results =
                              Append(@, [tool_name |-> tool_call.name,
                                         arguments |-> tool_call.arguments,
                                         result |-> r.result,
                                         remote |-> r.remote,
                                         server |-> r.server,
                                         is_str |-> r.is_str])]
    /\ UNCHANGED <<all_tools, connected, servers, processes, doc, alive, nextPid, last>>

\* The loop is over: the results are written to the log, and
\* _process_tool_results_with_true_stream builds tool_results_text and
\* calls llm.astream a second time.  When the log raises, the except branch
\* of the turn returns the error text.
CallEngineAgain ==
    /\ turn.pc = "DISPATCHING"
    /\ Len(turn.tool_results) = Len(turn.tool_calls)
    /\ turn' = IF LogRaises(turn.tool_results)
               THEN [turn EXCEPT !.pc = "DONE", !.log_raised = TRUE,
                                 !.answer = LogFailedText]
               ELSE [turn EXCEPT !.pc = "STREAMING_FINAL", !.llm_calls = 2,
                                 !.summary = SummaryOf(turn.tool_results)]
    /\ UNCHANGED <<all_tools, connected, servers, processes, doc, alive, nextPid, last>>

FinalStreamEnds ==
    /\ turn.pc = "STREAMING_FINAL"
    /\ \E text \in FinalResponses :
          turn' = [turn EXCEPT !.pc = "DONE", !.answer = text]
    /\ UNCHANGED <<all_tools, connected, servers, processes, doc, alive, nextPid, last>>

\* except Exception of _process_tool_results_with_true_stream
FinalStreamRaises ==
    /\ turn.pc = "STREAMING_FINAL"
    /\ turn' = OnEngineError(turn, 2)
    /\ UNCHANGED <<all_tools, connected, servers, processes, doc, alive, nextPid, last>>

\* The manager, in its own process, stops a server.  It tracks no handle
\* and no pid of these servers, so that only the probe decides.
ManagerStops ==
    /\ \E name \in Keys(servers), h \in BOOLEAN :
          SetWorld(stop_server(World, name, "error", "error", h).w)
    /\ UNCHANGED <<last, all_tools, connected, turn>>

NextClient ==
    \/ Refresh
    \/ BeginTurn
    \/ CallEngine
    \/ FirstStreamEnds
    \/ FirstStreamRaises
    \/ BeginDispatch
    \/ Dispatch
    \/ CallEngineAgain
    \/ FinalStreamEnds
    \/ FinalStreamRaises
    \/ ManagerStops

SpecClient == InitClient /\ [][NextClient]_vars

\* Every await of the turn returns or raises, so that a turn under way takes
\* its next step.
TurnStep ==
    \/ CallEngine
    \/ FirstStreamEnds
    \/ FirstStreamRaises
    \/ BeginDispatch
    \/ Dispatch
    \/ CallEngineAgain
    \/ FinalStreamEnds
    \/ FinalStreamRaises

SpecClientLive == SpecClient /\ WF_vars(TurnStep)

\* The loads of a client between whose queries the manager stops servers.
NextRefresh ==
    \/ Refresh
    \/ ManagerStops

SpecRefresh == InitClient /\ [][NextRefresh]_vars

-----------------------------------------------------------------------------
(* Saving and loading: registries built by add_server from an empty document,
   of configured servers under two names and of discovered servers. *)

RTEntries ==
    ({DefaultName, "local_tool"}
        \X {WeatherRunning, LocalConfig,
            [EmployeeConfig EXCEPT !.pid = 1, !.status = "error"]})
    \cup {<<DiscName(p), DiscoveredConfig(p)>> : p \in ScanPorts}

InitRT ==
    /\ servers = EmptyDict
    /\ doc = JsonDoc(EmptyDict)
    /\ processes = EmptyAt
    /\ alive = {}
    /\ nextPid = 1
    /\ last = NoLast
    /\ ClientIdle

AddAny ==
    /\ \E e \in RTEntries :
          LET s == add_server(servers, e[1], e[2])
          IN /\ Len(s.order) <= MaxEntries
             /\ servers' = s
             /\ doc' = SaveConfig(s)
             /\ last' = [NoLast EXCEPT !.op = "add", !.name = e[1]]
    /\ UNCHANGED <<processes, alive, nextPid>>
    /\ UNCHANGED cliVars

NextRT ==
    \/ AddAny
    \/ NewManager

SpecRT == InitRT /\ [][NextRT]_vars

\* A name no server of any registry has.
UnregisteredName == "no_such_server"

RemoveServer(name) ==
    /\ \E o1 \in PopenStopOutcomes, o2 \in PsutilStopOutcomes, h \in BOOLEAN :
          SetWorld(remove_server(World, name, o1, o2, h))
    /\ last' = [NoLast EXCEPT !.op = "remove", !.name = name,
                   !.tracked = name \in DOMAIN processes]
    /\ UNCHANGED cliVars

GetStatus(name) ==
    /\ \E h1 \in BOOLEAN, h2 \in BOOLEAN :
          LET r == get_server_status(World, name, h1, h2)
          IN /\ SetWorld(r.w)
             /\ last' = [NoLast EXCEPT !.op = "status", !.name = name,
                            !.h1 = h1, !.error = r.error, !.status = r.status,
                            !.tracked = name \in DOMAIN processes,
                            !.was = IF name \in Keys(servers)
                                    THEN servers.at[name].status ELSE None]
    /\ UNCHANGED cliVars

\* The operator's console: start, status query, remove, a new manager.
NextAdmin ==
    \/ \E name \in Keys(servers) : StartServer(name)
    \/ \E name \in Keys(servers) \cup {UnregisteredName} : GetStatus(name)
    \/ \E name \in Keys(servers) \cup {UnregisteredName} : RemoveServer(name)
    \/ NewManager
    \/ ProcessExits

SpecAdmin == Init /\ [][NextAdmin]_vars

\* Menu 7 with the name of a shipped server: add_server puts the shipped
\* config under the name, replacing the entry the name has.
ShippedConfigs == {<<DefaultName, DefaultConfig>>, <<"local_tool", LocalConfig>>}

Upsert ==
    /\ \E a \in ShippedConfigs :
          LET s == add_server(servers, a[1], a[2])
          IN /\ servers' = s
             /\ doc' = SaveConfig(s)
             /\ last' = [NoLast EXCEPT !.op = "add", !.name = a[1]]
    /\ UNCHANGED <<processes, alive, nextPid>>
    /\ UNCHANGED cliVars

\* One manager from its construction on: start, stop, status query,
\* add_server and remove_server, while processes may end by themselves.
NextSupervise ==
    \/ \E name \in Keys(servers) : StartServer(name)
    \/ \E name \in Keys(servers) : StopServer(name)
    \/ \E name \in Keys(servers) : GetStatus(name)
    \/ Upsert
    \/ \E name \in Keys(servers) : RemoveServer(name)
    \/ ProcessExits

SpecSupervise == Init /\ [][NextSupervise]_vars

\* The document is deleted between two runs.
DocumentRemoved ==
    /\ doc.exists
    /\ doc' = MissingDoc
    /\ last' = [NoLast EXCEPT !.op = "removed"]
    /\ UNCHANGED <<servers, processes, alive, nextPid>>
    /\ UNCHANGED cliVars

\* The document is edited by hand: it no longer parses, or one record has a
\* transport_type that MCPTransportType does not know.
DocumentDamaged ==
    /\ doc.exists /\ doc.parses
    /\ \/ doc' = CorruptDoc
       \/ \E name \in Keys(doc.data) :
             doc' = [doc EXCEPT !.data.at[name].transport_type = "http"]
    /\ last' = [NoLast EXCEPT !.op = "damaged"]
    /\ UNCHANGED <<servers, processes, alive, nextPid>>
    /\ UNCHANGED cliVars

\* Managers made one after another over a document that is written by
\* add_server and remove_server and removed or damaged in between.
NextLoad ==
    \/ AddAny
    \/ \E name \in Keys(servers) : RemoveServer(name)
    \/ NewManager
    \/ DocumentRemoved
    \/ DocumentDamaged

SpecLoad == Init /\ [][NextLoad]_vars

-----------------------------------------------------------------------------
(* Properties of the manager *)

IsSse(n) == servers.at[n].transport_type = "SSE"

\* C1: for an SSE provider with auto_start, a second start(name) right after
\* a first one that spawned the server spawns no second process and leaves
\* the status running, whatever the probe answers (Popen not raising).
C1_StartTwiceIdempotent ==
    [][\A n \in Keys(servers) :
          (/\ last.op = "start" /\ last.name = n /\ last.spawned = 1
           /\ IsSse(n) /\ servers.at[n].auto_start
           /\ StartServer(n) /\ ~last'.raised)
          => /\ last'.spawned = 0
             /\ servers'.at[n].status = "running"]_vars

\* C2: a start(name) of an SSE provider whose first probe failed and whose
\* spawn succeeded leaves the status running only if the second probe
\* succeeded and error otherwise, the spawned process still tracked.
C2_StartStatusFollowsSecondProbe ==
    \A n \in Keys(servers) :
        (/\ last.op = "start" /\ last.name = n /\ IsSse(n)
         /\ ~last.h1 /\ last.spawned = 1)
        => /\ n \in DOMAIN processes
           /\ servers.at[n].status = IF last.ret THEN "running" ELSE "error"

\* The last operation was stop(n) on a provider that had no tracked handle
\* and no recorded pid.
StoppedUntracked(n) ==
    /\ last.op = "stop" /\ last.name = n
    /\ ~last.tracked /\ last.pid = NoneInt

\* The probe of stop(n) found the provider reachable.
StopProbeSucceeded(n) == IsSse(n) /\ servers.at[n].url # None /\ last.h1

\* C3 as stated, for every provider: stopped when the probe fails, unknown
\* (never stopped) when it succeeds.
C3_StopUntrackedAnyTransport ==
    \A n \in Keys(servers) :
        StoppedUntracked(n)
        => servers.at[n].status =
              IF StopProbeSucceeded(n) THEN "unknown" ELSE "stopped"

\* C3, amended: stop(name) on an SSE provider with no tracked handle and no
\* recorded pid sets the status stopped when the probe fails and unknown
\* when it succeeds.
C3_StopUntrackedSse ==
    \A n \in Keys(servers) :
        (StoppedUntracked(n) /\ IsSse(n))
        => servers.at[n].status =
              IF StopProbeSucceeded(n) THEN "unknown" ELSE "stopped"

C3_Witness ==
    \E n \in Keys(servers) :
        /\ StoppedUntracked(n) /\ IsSse(n) /\ StopProbeSucceeded(n)
        /\ servers.at[n].status = "unknown"

\* The entries of srv with that port whose names lack the prefix, by place.
ManualClaims(srv, port) ==
    {i \in DOMAIN srv.order :
        /\ srv.at[srv.order[i]].port = port
        /\ ~StartsWithDiscovered(srv.order[i])}

PortOf(srv, n) == srv.at[n].port

\* C4: a scan that finds a responder on a port a manually configured
\* provider claims adds no discovered_server_<port> entry and sets the
\* status of that provider (the first claiming the port) to running; any
\* two entries that share a port after the scan shared it before.
C4_ScanKeepsConfiguredOwner ==
    [][Discover =>
        /\ \A p \in last'.responders :
              ManualClaims(servers, p) # {}
              => /\ DiscName(p) \notin Keys(servers') \ Keys(servers)
                 /\ LET i == CHOOSE i \in ManualClaims(servers, p) :
                                \A j \in ManualClaims(servers, p) : i <= j
                    IN servers'.at[servers.order[i]].status = "running"
        /\ \A a, b \in Keys(servers') :
              (a # b /\ PortOf(servers', a) = PortOf(servers', b))
              => /\ {a, b} \subseteq Keys(servers)
                 /\ PortOf(servers, a) = PortOf(servers, b)]_vars

\* A scan right after a load found weather_server's port answering.
C4_Witness ==
    /\ last.op = "scan"
    /\ ScanFirstPort \in last.responders
    /\ DefaultName \in Keys(servers)
    /\ servers.at[DefaultName].status = "running"
    /\ DiscName(ScanFirstPort) \notin Keys(servers)
    /\ DiscName(ScanFirstPort + 1) \in Keys(servers)

\* The order of a registry without the names in drop.
OrderWithout(srv, drop) == SelectSeq(srv.order, LAMBDA n : n \notin drop)

\* What a load after a save keeps of srv when it leaves out the names in
\* drop: every other entry in its place, equal in every field but status,
\* which is unknown.
ReloadedWithout(srv, loaded, drop) ==
    /\ loaded.order = OrderWithout(srv, drop)
    /\ \A n \in Keys(loaded) :
          LET was == srv.at[n]
              now == loaded.at[n]
          IN /\ now.description = was.description
             /\ now.transport_type = was.transport_type
             /\ now.command = was.command
             /\ now.url = was.url
             /\ now.port = was.port
             /\ now.working_directory = was.working_directory
             /\ now.env_vars = was.env_vars
             /\ now.auto_start = was.auto_start
             /\ now.health_check_endpoint = was.health_check_endpoint
             /\ now.pid = was.pid
             /\ now.status = "unknown"

\* The entries whose name has the prefix and whose port is the port of an
\* earlier entry whose name has not.
ShadowedDiscovered(srv) ==
    {srv.order[i] : i \in
        {i \in DOMAIN srv.order :
            /\ StartsWithDiscovered(srv.order[i])
            /\ \E j \in 1 .. (i - 1) :
                  /\ ~StartsWithDiscovered(srv.order[j])
                  /\ PortOf(srv, srv.order[j]) = PortOf(srv, srv.order[i])}}

\* C5 as stated: a load of a saved registry reproduces every provider, in
\* order, with every field but status, which is unknown.
C5_RoundTripAll ==
    [][(NewManager /\ doc = SaveConfig(servers))
       => ReloadedWithout(servers, servers', {})]_vars

\* C5, amended: the same, except that the load leaves out each
\* discovered_server_ entry whose port an earlier manually configured entry
\* of the registry has.
C5_RoundTripButShadowed ==
    [][(NewManager /\ doc = SaveConfig(servers))
       => ReloadedWithout(servers, servers', ShadowedDiscovered(servers))]_vars

\* A registry of MaxEntries entries, one with a pid, a command and
\* environment variables, has been loaded back whole.
C5_Witness ==
    /\ last.op = "load"
    /\ Len(servers.order) = MaxEntries
    /\ \A n \in Keys(servers) : servers.at[n].status = "unknown"
    /\ \E n \in Keys(servers) :
          /\ servers.at[n].pid # NoneInt
          /\ servers.at[n].command # None
    /\ \E n \in Keys(servers) :
          /\ servers.at[n].transport_type = "STDIO"
          /\ servers.at[n].env_vars # {}
          /\ ~servers.at[n].auto_start

-----------------------------------------------------------------------------
(* Properties of the client *)

\* C6: from a response of n well-formed directive blocks the extractor
\* returns n directives in source order, each with its block's procedure
\* name and every declared parameter as a literal string.
C6_ExtractsEveryBlock ==
    \A ds \in DirectiveLists :
        (turn.pc = "extracted" /\ turn.full_response = Render(ds))
        => /\ Len(turn.tool_calls) = Len(ds)
           /\ \A k \in DOMAIN ds :
                 /\ turn.tool_calls[k].name = ds[k].name
                 /\ turn.tool_calls[k].arguments = Declared(ds[k])


\* C7: when the first response of the completion engine holds no directive
\* (it has not both markers, or the extractor returns nothing for it), the
\* finished turn has called no tool, has called the engine once, and its
\* answer is the first response as it was streamed.
C7_NoDirectiveReturnsFirstResponse ==
    (/\ turn.pc = "DONE"
     /\ turn.failed # 1
     /\ \/ ~HasMarkers(turn.full_response)
        \/ _extract_tool_calls(turn.full_response) = <<>>)
    => /\ turn.tool_results = <<>>
       /\ turn.llm_calls = 1
       /\ turn.answer = turn.full_response

\* A turn that ended on a response with both markers and no call in it.
C7_Witness ==
    /\ turn.pc = "DONE"
    /\ turn.failed = 0
    /\ HasMarkers(turn.full_response)
    /\ _extract_tool_calls(turn.full_response) = <<>>
    /\ turn.answer = turn.full_response
    /\ DOMAIN all_tools # {}

\* C8: a call of a tool that is not in all_tools returns the unknown-tool
\* text without contacting any server, and the turn that made it ends
\* without an exception of call_tool and with a non-empty answer.
C8_UnknownToolStillAnswers ==
    (/\ turn.pc = "DONE"
     /\ \E k \in DOMAIN turn.tool_results :
           turn.tool_results[k].tool_name \notin DOMAIN all_tools)
    => /\ \A k \in DOMAIN turn.tool_results :
             turn.tool_results[k].tool_name \notin DOMAIN all_tools
             => /\ turn.tool_results[k].result = UnknownText(turn.tool_results[k].tool_name)
                /\ turn.tool_results[k].remote = "none"
       /\ ~turn.aborted
       /\ turn.answer # <<>>

\* The server that owns a tool is marked running in the registry.
OwnerRunning(tool_name) ==
    LET owner == all_tools[tool_name].server_name
    IN /\ owner \in Keys(servers)
       /\ servers.at[owner].status = "running"

\* C9: a call of a known tool whose server is not marked running at the
\* moment of the call returns the not-connected text, and the server is
\* not contacted.
C9_StoppedOwnerNotContacted ==
    [][(/\ turn.pc = "DISPATCHING"
        /\ Len(turn.tool_calls) > Len(turn.tool_results)
        /\ turn' # turn
        /\ turn.tool_calls[Len(turn.tool_results) + 1].name \in DOMAIN all_tools
        /\ ~OwnerRunning(turn.tool_calls[Len(turn.tool_results) + 1].name))
       => /\ Len(turn'.tool_results) = Len(turn.tool_results) + 1
          /\ LET r == turn'.tool_results[Len(turn'.tool_results)]
             IN /\ r.result = NotConnectedText(all_tools[r.tool_name].server_name)
                /\ r.remote = "none"]_vars

\* C10: when opening the session or the remote call raises, call_tool
\* returns the call-failed text with the cause; no exception of call_tool
\* ends the turn, which goes on to the second call of the engine unless the
\* results cannot be logged.
C10_RemoteExceptionBecomesText ==
    /\ ~turn.aborted
    /\ \A k \in DOMAIN turn.tool_results :
          turn.tool_results[k].remote \in {"open_raises", "call_raises"}
          => turn.tool_results[k].result
                = CallFailedText(RemoteError(turn.tool_results[k].remote))
    /\ (turn.pc = "DONE" /\ turn.tool_results # <<>> /\ ~turn.log_raised)
          => turn.llm_calls = 2

\* A finished turn in which opening the session raised for one call and the
\* remote call raised for another.
C10_Witness ==
    /\ turn.pc = "DONE"
    /\ \E k \in DOMAIN turn.tool_results : turn.tool_results[k].remote = "open_raises"
    /\ \E k \in DOMAIN turn.tool_results : turn.tool_results[k].remote = "call_raises"
    /\ turn.llm_calls = 2
    /\ turn.answer \in FinalResponses \ {<<>>}

\* The steps of the two paths of a turn.
TurnPaths ==
    {<<"PROMPTING", "STREAMING_RESPONSE">>,
     <<"STREAMING_RESPONSE", "DONE">>,
     <<"STREAMING_RESPONSE", "DIRECTIVES_FOUND">>,
     <<"DIRECTIVES_FOUND", "DISPATCHING">>,
     <<"DISPATCHING", "STREAMING_FINAL">>,
     <<"STREAMING_FINAL", "DONE">>}

\* C11: a turn moves only along PROMPTING, STREAMING_RESPONSE, DONE or
\* PROMPTING, STREAMING_RESPONSE, DIRECTIVES_FOUND, DISPATCHING,
\* STREAMING_FINAL, DONE; it ends after one call of the engine and no tool
\* call, or after two calls of the engine with every extracted call
\* dispatched in between.
C11_TurnFollowsTwoPaths ==
    [][turn'.pc # turn.pc
       => /\ \/ turn.pc \in {"idle", "DONE"} /\ turn'.pc = "PROMPTING"
             \/ <<turn.pc, turn'.pc>> \in TurnPaths
          /\ turn'.pc = "DONE"
             => \/ turn'.llm_calls = 1 /\ turn'.tool_results = <<>>
                \/ /\ turn'.llm_calls = 2
                   /\ Len(turn'.tool_results) = Len(turn'.tool_calls)]_vars

\* C11, its second half: a turn that has begun reaches DONE.
C11_TurnReachesDone == (turn.pc = "PROMPTING") ~> (turn.pc = "DONE")

\* The extracted calls are dispatched one at a time in the order of
\* extraction: each step of the loop adds the result of the call at its
\* place, a turn that ends after a dispatch has as many results as calls,
\* and a summary the second call of the engine is given holds, in that
\* order, the name and the result text of each call as call_tool returned it.
DispatchInExtractionOrder ==
    [][/\ turn'.tool_calls = turn.tool_calls /\ turn'.tool_results # turn.tool_results
          => /\ turn.pc = "DISPATCHING"
             /\ turn'.tool_results # <<>> => SubSeq(turn'.tool_results, 1, Len(turn'.tool_results) - 1) = turn.tool_results
       /\ Len(turn'.tool_results) <= Len(turn'.tool_calls)
       /\ \A k \in DOMAIN turn'.tool_results :
             /\ turn'.tool_results[k].tool_name = turn'.tool_calls[k].name
             /\ turn'.tool_results[k].arguments = turn'.tool_calls[k].arguments
       /\ (turn'.pc = "DONE" /\ turn'.tool_calls # <<>>)
          => Len(turn'.tool_results) = Len(turn'.tool_calls)
       /\ turn'.llm_calls = 2
          => /\ Len(turn'.summary) = Len(turn'.tool_calls)
             /\ \A k \in DOMAIN turn'.summary :
                   turn'.summary[k] = <<turn'.tool_calls[k].name,
                                        turn'.tool_results[k].result>>]_vars

\* A result that is one of the failure texts of call_tool.
FailedCall(r) ==
    \/ r.remote = "none"
       /\ r.result \in {UnknownText(r.tool_name)}
                         \cup {NotConnectedText(n) : n \in Keys(ClientRegistry)}
    \/ r.remote \in {"open_raises", "call_raises"}
       /\ r.result = CallFailedText(RemoteError(r.remote))

\* A call that failed (unknown tool, server not connected, call failed) does
\* not end the turn: no exception of call_tool ends it, the calls after the
\* failed one are dispatched too, and a summary the second call of the
\* engine is given holds the failure text.
FailedCallDoesNotAbort ==
    /\ ~turn.aborted
    /\ \A k \in DOMAIN turn.tool_results :
          turn.tool_results[k].remote # "returns" => FailedCall(turn.tool_results[k])
    /\ (turn.pc \in {"STREAMING_FINAL", "DONE"} /\ turn.tool_calls # <<>>)
       => Len(turn.tool_results) = Len(turn.tool_calls)
    /\ turn.llm_calls = 2
       => \A k \in DOMAIN turn.tool_results :
             FailedCall(turn.tool_results[k])
             => \E j \in DOMAIN turn.summary :
                   turn.summary[j] = <<turn.tool_results[k].tool_name,
                                       turn.tool_results[k].result>>

\* C14: when the first or the second call of the engine raises, the turn
\* ends with the error text of that call as its answer; the exception does
\* not leave the turn.
C14_EngineErrorBecomesText ==
    /\ turn.pc # "RAISED"
    /\ turn.failed # 0
       => /\ turn.pc = "DONE"
          /\ turn.answer # <<>>
          /\ turn.answer = IF turn.failed = 1 THEN LlmFailedText ELSE ResultsFailedText

\* A turn whose second call of the engine raised, after a dispatch.
C14_Witness ==
    /\ turn.pc = "DONE"
    /\ turn.failed = 2
    /\ turn.tool_results # <<>>
    /\ turn.answer = ResultsFailedText

\* The step is a load_servers_from_config() in which the connections end
\* as outcome says.
RefreshedWith(outcome) ==
    /\ Resting
    /\ turn' = turn
    /\ <<servers, processes, doc, alive, nextPid, last>>'
          = <<servers, processes, doc, alive, nextPid, last>>
    /\ LET cl == load_servers_from_config(
                     doc, [all_tools |-> all_tools, servers |-> connected], outcome)
       IN all_tools' = cl.all_tools /\ connected' = cl.servers

\* The servers the document marks running, by place in the document.
RunningPlaces(document) ==
    {i \in DOMAIN document.data.order :
        document.data.at[document.data.order[i]].status = "running"}

\* The running servers whose catalog the refresh received, and the ones
\* whose session also closed well.
Indexed(document, outcome) ==
    {document.data.order[i] : i \in
        {i \in RunningPlaces(document) : outcome[document.data.order[i]] # "fails"}}
Connected(document, outcome) ==
    {document.data.order[i] : i \in
        {i \in RunningPlaces(document) : outcome[document.data.order[i]] = "ok"}}

\* C15: after every load_servers_from_config(), all_tools holds exactly the
\* tools of the servers that were running and reached at this load, and the
\* servers map exactly the servers connected at this load: nothing stays
\* from an earlier load.
C15_RefreshRebuildsDirectory ==
    [][\A outcome \in [Keys(doc.data) -> ConnectOutcomes] :
          RefreshedWith(outcome)
          => /\ DOMAIN all_tools' = UNION {Catalog(n) : n \in Indexed(doc, outcome)}
             /\ DOMAIN connected' = Connected(doc, outcome)]_vars

\* C16: in a load_servers_from_config() a server whose connection fails is
\* left out and the loop goes on: every other running server of the
\* document is connected and its tools are in all_tools, wherever the
\* failing server stands in the document.
C16_RefreshSkipsFailedProvider ==
    [][\A outcome \in [Keys(doc.data) -> ConnectOutcomes] :
          RefreshedWith(outcome)
          => /\ \A n \in Connected(doc, outcome) :
                   /\ n \in DOMAIN connected'
                   /\ Catalog(n) \subseteq DOMAIN all_tools'
             /\ \A n \in Keys(doc.data) :
                   (outcome[n] = "fails" /\ n \notin DOMAIN connected)
                   => n \notin DOMAIN connected']_vars

\* The first server of the document is running and not connected, the two
\* after it are connected with their tools.
C16_Witness ==
    /\ doc.data.order = <<DefaultName, "employee_server", "local_tool">>
    /\ \A n \in Keys(doc.data) : doc.data.at[n].status = "running"
    /\ DOMAIN connected = {"employee_server", "local_tool"}
    /\ DOMAIN all_tools = {"query_employee", "get_weather"}
    /\ all_tools["get_weather"].server_name = "local_tool"

\* The place of the last running server of the document that delivered a
\* catalog with that tool; 0 when there is none.
LastAdvertiser(document, outcome, tool_name) ==
    LET places == {i \in RunningPlaces(document) :
                      /\ outcome[document.data.order[i]] # "fails"
                      /\ tool_name \in Catalog(document.data.order[i])}
    IN IF places = {} THEN 0
       ELSE CHOOSE i \in places : \A j \in places : j <= i

\* Tools that more than one server has.
Colliding(tool_name) ==
    Cardinality({n \in Keys(ClientRegistry) : tool_name \in Catalog(n)}) > 1

\* C17: when two servers have a tool of the same name, a load maps the name
\* to the server it processed last, and a call of the tool goes to the
\* server the name is mapped to.
C17_LastProviderWinsAndIsCalled ==
    [][/\ \A outcome \in [Keys(doc.data) -> ConnectOutcomes] :
             RefreshedWith(outcome)
             => \A t \in DOMAIN all_tools' :
                   (Colliding(t) /\ LastAdvertiser(doc, outcome, t) # 0)
                   => all_tools'[t].server_name
                         = doc.data.order[LastAdvertiser(doc, outcome, t)]
       /\ (/\ turn.pc = "DISPATCHING"
           /\ Len(turn'.tool_results) = Len(turn.tool_results) + 1
           /\ NextCall(turn).name \in DOMAIN all_tools
           /\ Colliding(NextCall(turn).name))
          => turn'.tool_results[Len(turn'.tool_results)].server
                = all_tools[NextCall(turn).name].server_name]_vars


\* C18: a spawn failure inside start_server(name) is caught: the call returns
\* False, the server's status becomes "error" and the document holds that
\* status; no process is spawned or tracked and the entries of all other
\* servers are as before.
C18_SpawnFailureIsCaught ==
    [][\A name \in Keys(servers) :
          (StartServer(name) /\ last'.raised) =>
             /\ ~last'.ret
             /\ servers'.at[name] = [servers.at[name] EXCEPT !.status = "error"]
             /\ doc' = SaveConfig(servers')
             /\ servers'.order = servers.order
             /\ \A other \in Keys(servers) \ {name} :
                    servers'.at[other] = servers.at[other]
             /\ processes' = processes
             /\ alive' = alive]_vars

C18_Witness ==
    /\ last.op = "start" /\ last.raised /\ ~last.ret
    /\ servers.at[last.name].status = "error"
    /\ doc.data.at[last.name].status = "error"
    /\ Cardinality(Keys(servers)) > 1

C20_LoadWithoutDocumentMakesDefault ==
    [][NewManager =>
          /\ ~last'.raised
          /\ ~doc.exists =>
                 /\ servers' = Put(EmptyDict, DefaultName, DefaultConfig)
                 /\ doc' = JsonDoc([order |-> <<DefaultName>>,
                                    at |-> [n \in {DefaultName} |-> ToJson(DefaultConfig)]])]_vars

C20_Witness ==
    /\ last.op = "load" /\ ~last.had_doc /\ ~last.raised
    /\ Keys(servers) = {DefaultName}
    /\ servers.at[DefaultName] = DefaultConfig
    /\ doc.exists /\ doc.parses /\ Keys(doc.data) = {DefaultName}

\* C12: the calls of a turn are dispatched in the order of extraction, one
\* result for each call, and the results of a turn that dispatched are given
\* to the second call of the engine, in that order, each with its text as
\* call_tool returned it.
C12_ResultsInOrderReachSecondCall ==
    (turn.pc = "DONE" /\ turn.tool_calls # <<>>) =>
       /\ Len(turn.tool_results) = Len(turn.tool_calls)
       /\ \A k \in DOMAIN turn.tool_results :
              turn.tool_results[k].tool_name = turn.tool_calls[k].name
       /\ turn.llm_calls = 2
       /\ turn.summary = [k \in DOMAIN turn.tool_calls |->
                             <<turn.tool_calls[k].name, turn.tool_results[k].result>>]

\* C13: a failed call does not end the turn: the calls after it are
\* dispatched, the turn is finished by the second call of the engine, and the
\* failure text is in the summary that call is given.
C13_FailureTextReachesSecondCall ==
    (turn.pc = "DONE" /\ \E k \in DOMAIN turn.tool_results : FailedCall(turn.tool_results[k])) =>
       /\ Len(turn.tool_results) = Len(turn.tool_calls)
       /\ turn.llm_calls = 2
       /\ \A k \in DOMAIN turn.tool_results :
              FailedCall(turn.tool_results[k])
              => \E j \in DOMAIN turn.summary :
                    turn.summary[j] = <<turn.tool_results[k].tool_name,
                                        turn.tool_results[k].result>>

\* A step of remove_server(name): the only steps that leave "remove" as the
\* last operation and change the registry or the record of the operation.
RemoveStep(name) ==
    /\ last'.op = "remove" /\ last'.name = name
    /\ last' # last \/ servers' # servers

\* C21: remove_server(name) on a registered server stops it first and then
\* deletes the entry: afterwards the name is in neither the registry, the
\* handle table nor the document, a process it was tracked by and whose
\* termination went through is gone, and every other entry is as before;
\* on a name that is not registered it changes nothing.
C21_RemoveStopsThenDeletes ==
    [][\A name \in Keys(servers) \cup {UnregisteredName} :
          RemoveStep(name) =>
             IF name \in Keys(servers)
             THEN /\ name \notin Keys(servers')
                  /\ name \notin DOMAIN processes'
                  /\ doc'.exists /\ doc'.parses /\ name \notin Keys(doc'.data)
                  /\ doc' = SaveConfig(servers')
                  /\ Keys(servers') = Keys(servers) \ {name}
                  /\ \A other \in Keys(servers') : servers'.at[other] = servers.at[other]
                  /\ \A other \in DOMAIN processes \ {name} :
                         other \in DOMAIN processes' /\ processes'[other] = processes[other]
                  /\ alive' \subseteq alive
                  /\ alive \ alive' \subseteq
                        {servers.at[name].pid} \cup
                        (IF name \in DOMAIN processes THEN {processes[name]} ELSE {})
             ELSE UNCHANGED <<servers, processes, doc, alive, nextPid>>]_vars

C21_Witness ==
    /\ last.op = "remove" /\ last.tracked
    /\ last.name \notin Keys(servers)
    /\ last.name \notin DOMAIN processes
    /\ Keys(servers) # {}
    /\ alive = {}

\* A step of stop_server(name).
StopStep(name) ==
    /\ last'.op = "stop" /\ last'.name = name
    /\ last' # last \/ servers' # servers

\* C22: stop_server(name) on a server with no tracked handle and a recorded
\* pid whose process no longer exists leaves the status stopped and the pid
\* cleared, whatever the transport.
C22_StopWithDeadPidIsStopped ==
    [][\A name \in Keys(servers) :
          (/\ StopStep(name)
           /\ name \notin DOMAIN processes
           /\ servers.at[name].pid # NoneInt
           /\ ~_is_process_running(alive, servers.at[name].pid))
          => /\ servers'.at[name].status = "stopped"
             /\ servers'.at[name].pid = NoneInt]_vars

\* C23: after stop_server(name) on a registered server the document holds
\* the registry, no handle is tracked for name, the status is stopped or
\* unknown, and a stopped server has no recorded pid and the process of the
\* pid it had recorded is not alive.
C23_StopLeavesConsistentOwnership ==
    \A name \in Keys(servers) :
        (last.op = "stop" /\ last.name = name)
        => /\ doc = SaveConfig(servers)
           /\ name \notin DOMAIN processes
           /\ servers.at[name].status \in {"stopped", "unknown"}
           /\ servers.at[name].status = "stopped"
              => /\ servers.at[name].pid = NoneInt
                 /\ last.pid \notin alive

\* C24: every operation other than the load that changes an entry of the
\* registry leaves the document equal to the saved registry.
C24_MutatingOperationsRewriteDocument ==
    [][(servers' # servers /\ last'.op # "load") => doc' = SaveConfig(servers')]_vars

\* A step of get_server_status(name).
StatusStep(name) ==
    /\ last'.op = "status" /\ last'.name = name
    /\ last' # last \/ servers' # servers

\* What is observed of a server when its status is asked for: an SSE server
\* answers the probe or its recorded pid is a running process; a STDIO server
\* has a tracked handle whose process has not exited.
ObservedRunning(name, h) ==
    IF servers.at[name].transport_type = "SSE"
    THEN \/ _check_server_health(servers.at[name], h)
         \/ servers.at[name].pid # NoneInt /\ servers.at[name].pid \in alive
    ELSE name \in DOMAIN processes /\ processes[name] \in alive

\* C25: get_server_status(name) yields running if the server is observed
\* running and stopped otherwise, whatever status the entry held, and sets
\* the entry's status to that; for a name that is not registered it returns
\* an error value and changes nothing.
C25_StatusFromLiveObservations ==
    [][\A name \in Keys(servers) \cup {UnregisteredName} :
          StatusStep(name) =>
             IF name \in Keys(servers)
             THEN /\ ~last'.error
                  /\ last'.status = IF ObservedRunning(name, last'.h1)
                                    THEN "running" ELSE "stopped"
                  /\ servers'.at[name].status = last'.status
             ELSE /\ last'.error
                  /\ UNCHANGED <<servers, processes, doc, alive, nextPid>>]_vars

\* A query that found a server running by its pid alone, the probe failing,
\* of an entry that held the status error.
C25_Witness ==
    /\ last.op = "status" /\ ~last.error /\ ~last.h1
    /\ last.was = "error"
    /\ last.status = "running"
    /\ servers.at[last.name].transport_type = "SSE"
    /\ servers.at[last.name].status = "running"

\* The directives of the groups, one after the other.
RECURSIVE Flat(_, _)
Flat(gs, k) ==
    IF k > Len(gs) THEN <<>>
    ELSE gs[k].invokes \o Flat(gs, k + 1)

AsCall(d) == [name |-> d.name, arguments |-> Declared(d)]

\* C26: from a response whose blocks are all closed the extractor returns
\* every directive of every block, in source order, a block of k invoke
\* markers giving k directives, each with the parameters under its own
\* invoke marker.
C26_AllDirectivesFlattened ==
    (/\ turn.pc = "extracted" /\ last.op = "response"
     /\ \A k \in DOMAIN last.given : last.given[k].closed)
    => turn.tool_calls =
          [k \in 1 .. Len(Flat(last.given, 1)) |-> AsCall(Flat(last.given, 1)[k])]

\* C27: a block that is not closed gives no directive and leaves the
\* directives of the closed blocks of the response as they are without it.
C27_MalformedBlockSkipped ==
    (turn.pc = "extracted" /\ last.op = "response")
    => turn.tool_calls =
          _extract_tool_calls(
              RenderLayout(SelectSeq(last.given, LAMBDA g : g.closed)))

\* C28: every parameter marker of a well-formed directive is in the
\* directive's arguments under its name with its text as it stands, the empty
\* text too.
C28_ParameterValuesVerbatim ==
    \A ds \in DirectiveLists :
        (/\ turn.pc = "extracted" /\ turn.full_response = Render(ds)
         /\ Len(turn.tool_calls) = Len(ds))
        => \A k \in DOMAIN ds :
              \A j \in DOMAIN ds[k].params :
                 /\ ds[k].params[j][1] \in DOMAIN turn.tool_calls[k].arguments
                 /\ turn.tool_calls[k].arguments[ds[k].params[j][1]] = ds[k].params[j][2]

\* C29: the system prompt of the first call of the engine has, for every
\* tool in all_tools, a line with its name, its description and its
\* parameter schema.
C29_PromptListsEveryToolWithSchema ==
    turn.pc = "STREAMING_RESPONSE" =>
       \A t \in DOMAIN all_tools :
          \E line \in turn.system_message :
             /\ line.name = all_tools[t].name
             /\ line.description = all_tools[t].description
             /\ "parameters" \in DOMAIN line
             /\ line.parameters = all_tools[t].parameters

\* The part of C29 that holds: every tool is listed with its name, its
\* description and the server it comes from.
PromptListsEveryTool ==
    turn.pc = "STREAMING_RESPONSE" =>
       \A t \in DOMAIN all_tools :
          \E line \in turn.system_message :
             /\ line.name = all_tools[t].name
             /\ line.description = all_tools[t].description
             /\ line.server_name = all_tools[t].server_name

\* Loading the document fails: it is not JSON, or a record of it is invalid.
LoadFails(document) ==
    /\ document.exists
    /\ ~document.parses \/ LoadLoop(document.data, EmptyDict, 1).raised

\* C30: when the document exists and loading it fails, load_config does not
\* raise, and afterwards the registry and the document hold exactly the
\* default server: no entry loaded before the failure is left.
C30_FailedLoadRegeneratesDefault ==
    [][(NewManager /\ LoadFails(doc)) =>
          /\ ~last'.raised
          /\ servers' = Put(EmptyDict, DefaultName, DefaultConfig)
          /\ doc' = SaveConfig(servers')]_vars

-----------------------------------------------------------------------------
(* Loading a document that holds a discovered entry and a manual one *)

\* The discovered_server_ entries of srv whose port an entry of srv without
\* the prefix has, before or after them.
DuplicatedDiscovered(srv) ==
    {n \in Keys(srv) :
        /\ StartsWithDiscovered(n)
        /\ ManualClaims(srv, PortOf(srv, n)) # {}}

\* C31: after load_config the registry holds no discovered_server_<port>
\* entry whose port a manually configured entry of the same document has,
\* whichever of the two comes first in the document.
C31_LoadDropsDuplicatedDiscovered ==
    last.op = "load" => DuplicatedDiscovered(servers) = {}

-----------------------------------------------------------------------------
(* The discovery scan, port by port *)

\* The places of the registry that hold name.
PlacesOf(srv, name) == {i \in DOMAIN srv.order : srv.order[i] = name}

\* The entry of srv under name, or None.
EntryOf(srv, name) == IF name \in Keys(srv) THEN srv.at[name] ELSE None

\* C32: a scan registers and saves, for each port that answers and that no
\* manually configured server has, exactly one entry named
\* discovered_server_<port> with auto_start false and status running; for
\* a port that does not answer it changes neither the discovered entry of
\* that port nor the servers that have the port; a scan with the responders
\* of the scan before it changes nothing.
C32_ScanRegistersEachFreeResponder ==
    [][Discover =>
        /\ \A p \in ScanPorts :
              IF p \in last'.responders
              THEN ManualClaims(servers, p) = {}
                   => /\ Cardinality(PlacesOf(servers', DiscName(p))) = 1
                      /\ servers'.at[DiscName(p)].port = p
                      /\ servers'.at[DiscName(p)].url = SseUrl(p)
                      /\ ~servers'.at[DiscName(p)].auto_start
                      /\ servers'.at[DiscName(p)].status = "running"
                      /\ doc'.exists /\ doc'.parses
                      /\ DiscName(p) \in Keys(doc'.data)
                      /\ doc'.data.at[DiscName(p)] = ToJson(servers'.at[DiscName(p)])
              ELSE /\ EntryOf(servers', DiscName(p)) = EntryOf(servers, DiscName(p))
                   /\ \A i \in ManualClaims(servers, p) :
                         servers'.at[servers.order[i]] = servers.at[servers.order[i]]
        /\ last'.responders = {} => (servers' = servers /\ doc' = doc)
        /\ ~last'.raised
        /\ (last.op = "scan" /\ last.responders = last'.responders)
           => (servers' = servers /\ doc' = doc)
        /\ discover_running_servers(World', last'.responders).servers = servers'
        /\ discover_running_servers(World', last'.responders).doc = doc']_vars

\* A scan found port 8001 answering and nobody having it, and port 8000
\* silent: discovered_server_8001 is registered and saved, nothing is
\* registered for port 8000.
C32_Witness ==
    /\ last.op = "scan"
    /\ last.responders = {ScanFirstPort + 1}
    /\ ManualClaims(servers, ScanFirstPort + 1) = {}
    /\ DiscName(ScanFirstPort + 1) \in Keys(servers)
    /\ DiscName(ScanFirstPort) \notin Keys(servers)
    /\ doc = SaveConfig(servers)


-----------------------------------------------------------------------------
(* Starting every server *)

\* A step of start_all_servers (a process that ends leaves last as it is).
StartAllStep == last'.op = "start_all" /\ alive \subseteq alive'

\* C33: start_all_servers calls start_server on the servers with auto_start,
\* all of them, in the order of the registry, and on no other server: each
\* server with auto_start is left running or in error whatever happened to
\* the ones before it, a server without auto_start keeps its entry and gets
\* no process, and no exception leaves the call.
C33_StartAllAttemptsEveryAutoStart ==
    [][StartAllStep =>
        /\ last'.attempted = AutoStarted(servers)
        /\ servers'.order = servers.order
        /\ \A n \in Keys(servers) :
              IF servers.at[n].auto_start
              THEN /\ servers'.at[n].status \in {"running", "error"}
                   /\ servers'.at[n].status = "error"
                      => \A m \in Keys(servers) :
                            servers.at[m].auto_start
                            => servers'.at[m].status \in {"running", "error"}
              ELSE /\ servers'.at[n] = servers.at[n]
                   /\ n \in DOMAIN processes' <=> n \in DOMAIN processes
        /\ doc' = SaveConfig(servers') \/ (doc' = doc /\ servers' = servers)
        /\ ~last'.raised]_vars

\* start_all_servers went over weather_server, local_tool and
\* employee_server: the spawn of weather_server failed, employee_server was
\* spawned after it, local_tool (auto_start false) was passed over.
C33_Witness ==
    /\ last.op = "start_all"
    /\ last.attempted = <<DefaultName, "employee_server">>
    /\ servers.order = <<DefaultName, "local_tool", "employee_server">>
    /\ servers.at[DefaultName].status = "error"
    /\ "employee_server" \in DOMAIN processes
    /\ servers.at["employee_server"].status = "running"
    /\ "local_tool" \notin DOMAIN processes

-----------------------------------------------------------------------------
(* The processes one manager has spawned *)

\* pid is the tracked handle of a server or the pid recorded for a
\* registered server. Every process in alive was spawned by start_server.
Reachable(pid) ==
    \/ \E n \in DOMAIN processes : processes[n] = pid
    \/ \E n \in Keys(servers) : servers.at[n].pid = pid

\* C34: after any sequence of start, stop, status query, add_server and
\* remove_server on one manager, every process start_server spawned that
\* has not ended is the tracked handle of a server or its recorded pid.
C34_NoSpawnedProcessLost == \A pid \in alive : Reachable(pid)

-----------------------------------------------------------------------------
(* The directory and the connected servers after a load *)

\* C35: in every state load_servers_from_config leaves, the server of each
\* tool of all_tools is a key of the client's servers, and call_tool on a
\* tool of all_tools never returns the text that says its server is not
\* connected.
C35_DirectoryOwnersAreConnected ==
    \A t \in DOMAIN all_tools :
        /\ all_tools[t].server_name \in DOMAIN connected
        /\ call_tool(all_tools, connected, t, "returns").result
              # NotConnectedText(all_tools[t].server_name)

====
